---- MODULE Spec2Model ----
(***************************************************************************)
(* Model of github.com/maruel/ffa3: the command transport of the           *)
(* FlashForge Adventurer 3 client (Connect, Close, sendHello, sendBye,     *)
(* sendCommand), the UDP discovery variants, and the reply parsers with    *)
(* parseDistance.                                                          *)
(*                                                                         *)
(* Byte strings are TLA+ strings; Len, \o and SubSeq act on them byte by   *)
(* byte, as Go's len, + and slicing do.                                    *)
(***************************************************************************)
EXTENDS Integers, Sequences, FiniteSets, TLC

VARIABLES
    conn,        \* d.conn: "none" (not dialed), "open", "closed"
    closeCalls,  \* number of d.conn.Close() calls made
    dev,         \* what Connect handed to the caller: "unset", "nil", "dev"
    op,          \* the exported call in progress
    pc,          \* position inside sendCommand: "idle", "write", "read"
    arg,         \* the command line the call in progress passes to sendCommand
    cmd,         \* sendCommand's argument, from its entry on
    resp,        \* sendCommand's accumulated response
    nReads,      \* d.conn.Read calls made by the current sendCommand
    ret,         \* sendCommand's returned string
    err,         \* sendCommand's returned error
    connectErr,  \* Connect's returned error
    closeErr,    \* Close's returned error
    err2,        \* Close's local err2, the result of d.conn.Close()
    nCmds,       \* commands the caller issued between Connect and Close
    crashed,     \* a nil pointer dereference panicked
    written,     \* every buffer passed to d.conn.Write, in order
    wire,        \* bytes the peer sent that no Read has returned yet
    owed,        \* the command lines the peer has received and not answered
    peerSent,    \* the answer the peer sent last, "" since the last write
    stale,       \* an earlier answer was unread or unsent when cmd was written
    eof,         \* the peer closed the stream
    peerOK,      \* every answer the peer sent was one whole frame of its command
    \* ---- discovery ----
    variant,     \* the discovery function called
    first,       \* Search's first argument
    mpc,         \* position of the discovery function's own goroutine
    rpc,         \* position of the read loop's goroutine
    sock,        \* state of each UDP socket: "none", "open", "closed"
    nClose,      \* Close() calls made on each UDP socket
    inbox,       \* datagrams delivered to the read socket and not read yet
    nReplies,    \* datagrams delivered so far
    rdFail,      \* the read socket reports an error to its next read
    out,         \* the read loop's result slice
    got,         \* the datagrams ReadFromUDP returned to the read loop, in order
    doneRecv,    \* receives from the done channel completed
    wg,          \* the WaitGroup's counter
    probes,      \* probe datagrams sent
    laddr,       \* the local address the probe announces (laddr; laddr1.IP, laddr2.Port)
    sent,        \* the datagrams written, with their destination
    sret,        \* the slice the discovery function returned
    serr,        \* the error the discovery function returned
    \* ---- parsers ----
    pfn,         \* the parser called
    pin,         \* parseDistance's argument, the payload sendCommand returned to a
                 \* parser, or the command line of SetLight, SetFan or StopJob
    pold,        \* the caller's record before the call
    prec,        \* the caller's record
    pout,        \* the distance parseDistance returned
    perr,        \* the error the parser returned
    psend,       \* what sendCommand returned to SetLight, SetFan or StopJob
    ppc          \* "call" before the call, "done" after it, "panic" if it panicked

clientVars == <<conn, closeCalls, dev, op, pc, arg, cmd, resp, nReads, ret, err,
                connectErr, closeErr, err2, nCmds, crashed, written>>
peerVars == <<wire, owed, peerSent, stale, eof, peerOK>>
transportVars == <<clientVars, peerVars>>
searchVars == <<variant, first, mpc, rpc, sock, nClose, inbox, nReplies, rdFail,
                out, got, doneRecv, wg, probes, laddr, sent, sret, serr>>
parseVars == <<pfn, pin, pold, prec, pout, perr, psend, ppc>>

(***************************************************************************)
(* Bounds of the model.                                                    *)
(***************************************************************************)
\* Commands the caller issues between Connect and Close.
MaxCmds == 1
\* A Read may return the first 1..MaxCut available bytes, or all but 0..MaxCut.
MaxCut == 1
\* Datagrams delivered to the read socket during one discovery call.
MaxReplies == 2
\* parseDistance is given the text of every n micrometres, |n| <= MaxMicro.
MaxMicro == 1500
\* parseDistance is given the text of every m millimetres, |m| <= MaxMilli.
MaxMilli == 20
\* QueryPrinterInfo is given every payload of up to MaxLines lines.
MaxLines == 2

(***************************************************************************)
(* Program constants.                                                      *)
(***************************************************************************)
\* b := [4096]byte{} in sendCommand.
BufLen == 4096
\* physic.MilliMetre, in physic.Distance's unit, the nanometre.
MilliMetre == 1000000
\* The decimal digits of the largest int, 9223372036854775807.
IntDigits == 19

CRLF == "\r\n"
Suffix == "\r\nok\r\n"
OkLine == "ok\r\n"
HelloCmd == "M601 S1"
ByeCmd == "M602"
ControlSuccess == "Control Success."
ControlFailed == "Control failed."
ControlRelease == "Control Release."

(***************************************************************************)
(* Errors: an error value is a record; Nil is Go's nil error.              *)
(***************************************************************************)
Err(kind, text) == [kind |-> kind, text |-> text]
Nil == Err("nil", "")

(***************************************************************************)
(* strings.HasPrefix, strings.HasSuffix, strings.SplitN(cmd, " ", 2)[0].   *)
(***************************************************************************)
Min(a, b) == IF a < b THEN a ELSE b

HasPrefix(s, p) == Len(s) >= Len(p) /\ SubSeq(s, 1, Len(p)) = p

HasSuffix(s, p) == Len(s) >= Len(p) /\ SubSeq(s, Len(s) - Len(p) + 1, Len(s)) = p

FirstWord(s) ==
    LET spaces == {i \in 1..Len(s) : SubSeq(s, i, i) = " "}
    IN IF spaces = {} THEN s
       ELSE SubSeq(s, 1, (CHOOSE i \in spaces : \A j \in spaces : i <= j) - 1)

Prefix(c) == "CMD " \o FirstWord(c) \o " Received.\r\n"

Frame(c, P) == Prefix(c) \o P \o Suffix

(***************************************************************************)
(* sendCommand after its read loop: verify the wrap and trim it.           *)
(***************************************************************************)
\* Mutant: the separator before the ok line is not trimmed.
UnwrapKeepSeparator(c, r) == SubSeq(r, Len(Prefix(c)) + 1, Len(r) - Len(OkLine))

Unwrap(c, r) ==
    LET line == SubSeq(r, Len(Prefix(c)) + 1, Len(r) - Len(OkLine))
    IN IF HasSuffix(line, CRLF) THEN SubSeq(line, 1, Len(line) - Len(CRLF)) ELSE line

\* Mutant: the suffix is not checked.
VerifyPrefixOnly(c, r) ==
    IF ~HasPrefix(r, Prefix(c)) THEN [ret |-> r, err |-> Err("framing", r)]
    ELSE [ret |-> Unwrap(c, r), err |-> Nil]

Verify(c, r) ==
    IF ~HasPrefix(r, Prefix(c)) THEN [ret |-> r, err |-> Err("framing", r)]
    ELSE IF ~HasSuffix(r, Suffix) THEN [ret |-> r, err |-> Err("framing", r)]
    ELSE [ret |-> Unwrap(c, r), err |-> Nil]

(***************************************************************************)
(* sendHello, sendBye and Close, as functions of what sendCommand and      *)
(* d.conn.Close() returned.                                                *)
(***************************************************************************)
\* Mutant: any payload other than the failure sentinel takes control.
sendHelloLax(r, e) ==
    IF e # Nil THEN e
    ELSE IF r = ControlFailed THEN Err("already", "")
    ELSE Nil

sendHello(r, e) ==
    IF e # Nil THEN e
    ELSE IF r = ControlFailed THEN Err("already", "")
    ELSE IF r # ControlSuccess THEN Err("protocol", r)
    ELSE Nil

sendBye(r, e) ==
    IF e # Nil THEN e
    ELSE IF r # ControlRelease THEN Err("release", r)
    ELSE Nil

\* Mutant: the stream's close failure takes priority over the bye failure.
CloseResultStreamFirst(e, e2) == IF e2 # Nil THEN e2 ELSE e

CloseResult(e, e2) == IF e # Nil THEN e ELSE e2

(***************************************************************************)
(* The peer: what the printer may put on the stream for a command.         *)
(***************************************************************************)
Payloads == {"", ControlSuccess, ControlFailed, ControlRelease, "ab\r\ncd", "ab\r\n"}

Malformed(c) ==
    { Frame("M999", ControlSuccess),          \* the frame of another command
      Prefix(c) \o ControlSuccess \o CRLF,    \* no terminating ok line
      ControlSuccess \o Suffix }              \* no CMD line

\* n bytes of payload text.
RECURSIVE Pad(_)
Pad(n) ==
    IF n <= 0 THEN ""
    ELSE LET h == Pad(n \div 2) IN IF n % 2 = 0 THEN h \o h ELSE h \o h \o "x"

\* Payloads whose frame fills the read buffer exactly, and overflows it by one byte.
LongPayloads(c) ==
    LET room == BufLen - Len(Prefix(c)) - Len(Suffix)
    IN {Pad(room), Pad(room + 1)}

LongFrames(c) == {Frame(c, P) : P \in LongPayloads(c)}

Responses(c) ==
    {Frame(c, P) : P \in Payloads} \cup {Prefix(c) \o OkLine} \cup Malformed(c)
        \cup LongFrames(c)

\* The sizes a Read of the stream may return when avail bytes are unread.
ReadSizes(avail) ==
    LET most == Min(avail, BufLen)
    IN {n \in 1..most : n <= MaxCut \/ n >= most - MaxCut}

Cmds == {"M27"}

(***************************************************************************)
(* Initial state: nothing dialed, nothing on the stream.                   *)
(***************************************************************************)
InitTransport ==
    /\ conn = "none" /\ closeCalls = 0 /\ dev = "unset"
    /\ op = "none" /\ pc = "idle" /\ arg = "" /\ cmd = "" /\ resp = "" /\ nReads = 0
    /\ ret = "" /\ err = Nil /\ connectErr = Nil /\ closeErr = Nil /\ err2 = Nil
    /\ nCmds = 0 /\ crashed = FALSE /\ written = <<>>
    /\ wire = "" /\ owed = <<>> /\ peerSent = "" /\ stale = FALSE /\ eof = FALSE
    /\ peerOK = TRUE

\* Mutant: Connect returns the hello failure without closing.
SkipsCloseOnHelloFailure == FALSE

\* Connect calls d.Close() when sendHello failed.
ClosesOnHelloFailure == TRUE

(***************************************************************************)
(* sendCommand returns (r, e) to the call in progress, which runs on to    *)
(* its own return or to its next call of sendCommand.                      *)
(***************************************************************************)
Return(r, e) ==
    /\ ret' = r
    /\ err' = e
    /\ CASE op = "Connect" ->
              IF sendHello(r, e) = Nil
              THEN \* return d, nil
                   /\ dev' = "dev" /\ connectErr' = Nil
                   /\ op' = "none" /\ pc' = "idle"
                   /\ UNCHANGED <<arg, conn, closeCalls, closeErr, err2>>
              ELSE IF ClosesOnHelloFailure
              THEN \* d.Close(), then return nil, err
                   /\ connectErr' = sendHello(r, e)
                   /\ op' = "ConnectClose" /\ arg' = ByeCmd /\ pc' = "write"
                   /\ UNCHANGED <<dev, conn, closeCalls, closeErr, err2>>
              ELSE /\ connectErr' = sendHello(r, e) /\ dev' = "nil"
                   /\ op' = "none" /\ pc' = "idle"
                   /\ UNCHANGED <<arg, conn, closeCalls, closeErr, err2>>
         [] op \in {"ConnectClose", "Close"} ->
              \* err := d.sendBye(); err2 := d.conn.Close()
              \E c \in {Nil, Err("close", "")} :
                 /\ err2' = c
                 /\ conn' = "closed"
                 /\ closeCalls' = closeCalls + 1
                 /\ closeErr' = CloseResult(sendBye(r, e), c)
                 /\ dev' = IF op = "ConnectClose" THEN "nil" ELSE dev
                 /\ op' = "none" /\ pc' = "idle"
                 /\ UNCHANGED <<arg, connectErr>>
         [] op = "Cmd" ->
              /\ op' = "none" /\ pc' = "idle"
              /\ UNCHANGED <<arg, dev, conn, closeCalls, connectErr, closeErr, err2>>

(***************************************************************************)
(* Connect: net.Dial, then sendHello.                                      *)
(***************************************************************************)
Connect ==
    /\ ~crashed /\ op = "none" /\ dev = "unset"
    /\ \/ /\ connectErr' = Err("dial", "") /\ dev' = "nil"
          /\ UNCHANGED <<conn, op, pc, arg>>
       \/ /\ conn' = "open" /\ op' = "Connect" /\ arg' = HelloCmd /\ pc' = "write"
          /\ UNCHANGED <<connectErr, dev>>
    /\ UNCHANGED <<closeCalls, cmd, resp, nReads, ret, err, closeErr, err2, nCmds,
                   crashed, written, peerVars>>

\* A command of the caller on the Dev that Connect returned (SendRawCommand).
Command ==
    /\ ~crashed /\ op = "none" /\ dev = "dev" /\ conn = "open" /\ nCmds < MaxCmds
    /\ \E c \in Cmds : arg' = c
    /\ op' = "Cmd" /\ pc' = "write" /\ nCmds' = nCmds + 1
    /\ UNCHANGED <<conn, closeCalls, dev, cmd, resp, nReads, ret, err, connectErr,
                   closeErr, err2, crashed, written, peerVars>>

\* Dev.Close on the Dev that Connect returned.
Close ==
    /\ ~crashed /\ op = "none" /\ dev = "dev" /\ conn = "open"
    /\ op' = "Close" /\ arg' = ByeCmd /\ pc' = "write"
    /\ UNCHANGED <<conn, closeCalls, dev, cmd, resp, nReads, ret, err, connectErr,
                   closeErr, err2, nCmds, crashed, written, peerVars>>

\* Dev.Close on the nil *Dev of a failed Connect: d.sendBye() reaches
\* d.conn.Write with d == nil, a nil pointer dereference.
CloseNil ==
    /\ ~crashed /\ op = "none" /\ dev = "nil"
    /\ crashed' = TRUE
    /\ UNCHANGED <<conn, closeCalls, dev, op, pc, arg, cmd, resp, nReads, ret, err,
                   connectErr, closeErr, err2, nCmds, written, peerVars>>

(***************************************************************************)
(* sendCommand(arg): d.conn.Write, then the read loop, then Verify.        *)
(***************************************************************************)
Write ==
    /\ ~crashed /\ pc = "write"
    /\ cmd' = arg /\ resp' = "" /\ nReads' = 0
    /\ \/ /\ written' = Append(written, "~" \o arg \o "\n")
          /\ pc' = "read"
          /\ owed' = IF eof THEN owed ELSE Append(owed, arg)
          /\ peerSent' = ""
          /\ stale' = (wire # "" \/ owed # <<>>)
          /\ UNCHANGED <<conn, closeCalls, dev, op, arg, ret, err, connectErr,
                         closeErr, err2, wire, eof, peerOK>>
       \/ \* d.conn.Write returns an error
          /\ written' = Append(written, "~" \o arg \o "\n")
          /\ Return("", Err("write", ""))
          /\ UNCHANGED peerVars
    /\ UNCHANGED <<nCmds, crashed>>

Read ==
    /\ ~crashed /\ pc = "read" /\ wire # ""
    /\ \E n \in ReadSizes(Len(wire)) :
          /\ wire' = SubSeq(wire, n + 1, Len(wire))
          /\ resp' = resp \o SubSeq(wire, 1, n)
          /\ nReads' = nReads + 1
          /\ IF n # BufLen
             THEN Return(Verify(cmd, resp').ret, Verify(cmd, resp').err)
             ELSE UNCHANGED <<conn, closeCalls, dev, op, pc, arg, ret, err,
                              connectErr, closeErr, err2>>
    /\ UNCHANGED <<cmd, nCmds, crashed, written, owed, peerSent, stale, eof, peerOK>>

\* Read returns 0, err once the peer has closed and nothing is left to read.
ReadErr ==
    /\ ~crashed /\ pc = "read" /\ wire = "" /\ eof
    /\ nReads' = nReads + 1
    /\ Return(resp, Err("read", ""))
    /\ UNCHANGED <<cmd, resp, nCmds, crashed, written, peerVars>>

(***************************************************************************)
(* The peer answers the command it received, or closes the stream.         *)
(***************************************************************************)
PeerRespond ==
    /\ conn = "open" /\ ~eof /\ owed # <<>>
    /\ \E r \in Responses(Head(owed)) :
          /\ wire' = wire \o r
          /\ peerSent' = r
          /\ peerOK' = (peerOK /\ Verify(Head(owed), r).err = Nil)
    /\ owed' = Tail(owed)
    /\ UNCHANGED <<clientVars, stale, eof>>

PeerClose ==
    /\ conn = "open" /\ ~eof
    /\ eof' = TRUE
    /\ UNCHANGED <<clientVars, wire, owed, peerSent, stale, peerOK>>

(***************************************************************************)
(* Discovery: Search(first, d) and the three earlier variants.  Each binds *)
(* its sockets, starts a read loop in a goroutine, sends the probe, waits  *)
(* for the window, closes and joins the read loop.                          *)
(***************************************************************************)
Variants == {"Search", "SearchListenMulticast", "SearchListen", "SearchNoListen"}

Sockets == {"l", "conn"}

\* The sockets the variant binds: Search listens only, SearchNoListen dials only.
Bound(v) ==
    CASE v = "Search" -> {"l"}
      [] v = "SearchNoListen" -> {"conn"}
      [] OTHER -> {"l", "conn"}

\* The socket the read loop calls ReadFromUDP on.
ReadSocket(v) == IF v = "SearchNoListen" THEN "conn" ELSE "l"

\* The sockets closed when sending the probe failed.
ClosedOnSendFailure(v) ==
    CASE v = "Search" -> {"l"}
      [] v = "SearchListenMulticast" -> {"conn", "l"}
      [] v = "SearchListen" -> {"conn"}
      [] v = "SearchNoListen" -> {"conn"}

\* The sockets closed once the window has elapsed.
ClosedAfterWindow(v) ==
    CASE v = "Search" -> {"l"}
      [] v = "SearchListenMulticast" -> {"conn", "l"}
      [] v = "SearchListen" -> {"conn"}
      [] v = "SearchNoListen" -> {"conn"}

\* Mutant: the case <-done branch returns without closing.
ClosedAfterDoneNone == {}

\* The sockets Search closes when the read loop ended before the window.
ClosedAfterDone == {"l"}

\* Search joins its read loop through the done channel, the others through wg.
UsesDone(v) == v = "Search"

\* bytes.IndexByte(b, 0): the 1-based index of the first zero byte, 0 for none.
IndexZero(b) ==
    LET zs == {i \in 1..Len(b) : b[i] = 0}
    IN IF zs = {} THEN 0 ELSE CHOOSE i \in zs : \A j \in zs : i <= j

HexDigit(n) == SubSeq("0123456789abcdef", n + 1, n + 1)

\* hex.EncodeToString
RECURSIVE HexEncode(_)
HexEncode(b) ==
    IF b = <<>> THEN ""
    ELSE HexDigit(b[1] \div 16) \o HexDigit(b[1] % 16) \o HexEncode(Tail(b))

\* Every datagram read is appended, up to its first zero byte if it has one.
AppendedEvery(v, d) ==
    <<[IP |-> d.src,
       Name |-> IF IndexZero(d.data) # 0
                THEN SubSeq(d.data, 1, IndexZero(d.data) - 1) ELSE d.data]>>

\* What the read loop appends to out for one datagram.
Appended(v, d) ==
    CASE v = "Search" ->
             IF IndexZero(d.data) # 0
             THEN <<[IP |-> d.src, Name |-> SubSeq(d.data, 1, IndexZero(d.data) - 1)]>>
             ELSE <<>>
      [] v = "SearchListenMulticast" -> <<[IP |-> d.src, Name |-> HexEncode(d.data)]>>
      [] OTHER -> <<[IP |-> d.src, Name |-> d.data]>>

\* Reply datagrams: a name followed by a zero byte, a payload with no zero
\* byte, and an empty payload.
Datagrams ==
    { [src |-> "p1", data |-> <<65, 0, 66>>],
      [src |-> "p2", data |-> <<65, 66>>],
      [src |-> "p3", data |-> <<>>] }

\* const ip: the multicast address and port the printer listens to.
ip == "225.0.0.9:19000"

\* The largest port of a UDP address.
PortMax == 65535

\* The ports the kernel gives the socket whose port is announced.
Ports == {255, 256, 19000, PortMax}

\* The 4-byte local IP of a udp4 socket: 0.0.0.0 for net.ListenUDP("udp4", nil),
\* the address of the route to the multicast group for the dialed conn.
LocalIPs(v) ==
    IF v = "Search" THEN {<<0, 0, 0, 0>>}
    ELSE {<<192, 168, 1, 20>>, <<10, 0, 0, 255>>}

\* laddr before a socket is bound.
NoAddr == [IP |-> <<>>, Port |-> 0]

\* l.LocalAddr() (Search, SearchListen), conn.LocalAddr() (SearchNoListen),
\* laddr1.IP with laddr2.Port (SearchListenMulticast).
LocalAddrs(v) == {[IP |-> a, Port |-> p] : a \in LocalIPs(v), p \in Ports}

\* Byte k, from the least significant, of n.
Byte(n, k) == (n \div (256 ^ k)) % 256

\* The port written most significant byte first over all of magic[4:].
PortBytesBigEndian32(v, port) ==
    <<Byte(port, 3), Byte(port, 2), Byte(port, 1), Byte(port, 0)>>

\* magic[4:] after binary.BigEndian.PutUint16(magic[4:], uint16(port)) in Search,
\* after binary.LittleEndian.PutUint32(magic[4:], uint32(port)) in the others.
PortBytes(v, port) ==
    IF v = "Search"
    THEN <<Byte(port % 65536, 1), Byte(port % 65536, 0), 0, 0>>
    ELSE <<Byte(port, 0), Byte(port, 1), Byte(port, 2), Byte(port, 3)>>

\* magic[:4] after copy(magic[:4], laddr.IP) into the zeroed array.
IPBytes(a) == [i \in 1..4 |-> IF i <= Len(a) THEN a[i] ELSE 0]

\* magic := [8]byte{} with the address copied in.
Magic(v, addr) == IPBytes(addr.IP) \o PortBytes(v, addr.Port)

InitSearch ==
    /\ variant \in Variants
    /\ first \in (IF variant = "Search" THEN BOOLEAN ELSE {FALSE})
    /\ mpc = "start" /\ rpc = "none"
    /\ sock = [s \in Sockets |-> "none"]
    /\ nClose = [s \in Sockets |-> 0]
    /\ inbox = <<>> /\ nReplies = 0 /\ rdFail = FALSE
    /\ out = <<>> /\ got = <<>> /\ doneRecv = 0 /\ wg = 0 /\ probes = 0
    /\ laddr = NoAddr /\ sent = <<>>
    /\ sret = <<>> /\ serr = Nil

\* s.Close() for every s in S.
CloseAll(S) ==
    /\ sock' = [s \in Sockets |-> IF s \in S THEN "closed" ELSE sock[s]]
    /\ nClose' = [s \in Sockets |-> IF s \in S THEN nClose[s] + 1 ELSE nClose[s]]

\* net.DialUDP / net.ListenUDP / net.ListenMulticastUDP, then go func().
\* A failed bind returns before the read loop is started.
Bind ==
    /\ mpc = "start"
    /\ \/ /\ sock' = [s \in Sockets |-> IF s \in Bound(variant) THEN "open" ELSE "none"]
          /\ rpc' = "reading" /\ mpc' = "send"
          /\ wg' = IF UsesDone(variant) THEN 0 ELSE 1
          /\ laddr' \in LocalAddrs(variant)
          /\ UNCHANGED <<serr>>
       \/ \* the first socket cannot be bound
          /\ serr' = Err("bind", "") /\ mpc' = "returned"
          /\ UNCHANGED <<sock, rpc, wg, laddr>>
       \/ \* conn is dialed and the listener cannot be bound
          /\ Bound(variant) = Sockets
          /\ sock' = [sock EXCEPT !["conn"] = "open"]
          /\ serr' = Err("bind", "") /\ mpc' = "returned"
          /\ UNCHANGED <<rpc, wg, laddr>>
    /\ UNCHANGED <<variant, first, nClose, inbox, nReplies, rdFail, out, got, doneRecv,
                   probes, sent, sret>>

\* l.WriteTo(magic) / conn.Write(magic), and the closes of its failure path.
Send ==
    /\ mpc = "send"
    /\ \/ /\ probes' = probes + 1
          /\ sent' = Append(sent, [to |-> ip, data |-> Magic(variant, laddr)])
          /\ mpc' = IF UsesDone(variant) THEN "select" ELSE "sleep"
          /\ UNCHANGED <<sock, nClose, serr>>
       \/ /\ CloseAll(ClosedOnSendFailure(variant))
          /\ serr' = Err("send", "")
          /\ mpc' = "join"
          /\ UNCHANGED <<probes, sent>>
    /\ UNCHANGED <<variant, first, rpc, inbox, nReplies, rdFail, out, got, doneRecv,
                   wg, laddr, sret>>

\* An elapsed window is reported as an error of its own.
WindowErrTimeout(v, c) == Err("timeout", "")

\* The error the function returns after the window: c, the result of its
\* last Close; SearchNoListen returns nil whatever its Close returned.
WindowErr(v, c) == IF v = "SearchNoListen" THEN Nil ELSE c

\* select, case <-time.After(d): err = l.Close(), then wait for done.
\* time.Sleep(time.Second) of the other variants, then their closes.
WindowElapsed ==
    /\ mpc \in {"select", "sleep"}
    /\ CloseAll(ClosedAfterWindow(variant))
    /\ \E c \in {Nil, Err("close", "")} : serr' = WindowErr(variant, c)
    /\ mpc' = "join"
    /\ UNCHANGED <<variant, first, rpc, inbox, nReplies, rdFail, out, got, doneRecv,
                   wg, probes, laddr, sent, sret>>

\* select, case <-done: the read loop's deferred send meets the select;
\* err = l.Close(); return out, err.
SelectDone ==
    /\ mpc = "select" /\ rpc = "sendDone"
    /\ rpc' = "exited" /\ doneRecv' = doneRecv + 1
    /\ CloseAll(ClosedAfterDone)
    /\ \E c \in {Nil, Err("close", "")} : serr' = c
    /\ sret' = out
    /\ mpc' = "returned"
    /\ UNCHANGED <<variant, first, inbox, nReplies, rdFail, out, got, wg, probes,
                   laddr, sent>>

\* Search returns after its closes without waiting for the read loop.
ReturnsUnjoined == FALSE

\* <-done follows l.Close() on the window's and the send failure's path.
ReceivesDone == TRUE

\* <-done after the closes (Search), wg.Wait() (the other variants), and the return.
Join ==
    /\ mpc = "join"
    /\ IF UsesDone(variant)
       THEN IF ReceivesDone
            THEN /\ rpc = "sendDone"
                 /\ rpc' = "exited" /\ doneRecv' = doneRecv + 1
            ELSE UNCHANGED <<rpc, doneRecv>>
       ELSE /\ wg = 0
            /\ UNCHANGED <<rpc, doneRecv>>
    /\ sret' = IF serr.kind = "send" THEN <<>> ELSE out
    /\ mpc' = "returned"
    /\ UNCHANGED <<variant, first, sock, nClose, inbox, nReplies, rdFail, out, got, wg,
                   probes, laddr, sent, serr>>

\* The read loop keeps reading whatever first is.
ReadsOn(v, f) == FALSE

\* if first { return }: only Search takes the argument.
ReturnsAfterRead(v, f) == v = "Search" /\ f

\* The read loop: ReadFromUDP returns a datagram.
ReaderRead ==
    /\ rpc = "reading" /\ sock[ReadSocket(variant)] = "open" /\ ~rdFail
    /\ inbox # <<>>
    /\ inbox' = Tail(inbox)
    /\ got' = Append(got, Head(inbox))
    /\ out' = out \o Appended(variant, Head(inbox))
    /\ rpc' = IF ReturnsAfterRead(variant, first) THEN "sendDone" ELSE "reading"
    /\ UNCHANGED <<variant, first, mpc, sock, nClose, nReplies, rdFail, doneRecv,
                   wg, probes, laddr, sent, sret, serr>>

\* The read loop: ReadFromUDP returns an error and the loop breaks; the
\* deferred done <- struct{}{} or wg.Done() follows.
ReaderErr ==
    /\ rpc = "reading"
    /\ sock[ReadSocket(variant)] = "closed" \/ rdFail
    /\ IF UsesDone(variant)
       THEN rpc' = "sendDone" /\ UNCHANGED wg
       ELSE rpc' = "exited" /\ wg' = wg - 1
    /\ UNCHANGED <<variant, first, mpc, sock, nClose, inbox, nReplies, rdFail, out, got,
                   doneRecv, probes, laddr, sent, sret, serr>>

\* The network delivers a reply datagram to the read socket.
Reply ==
    /\ sock[ReadSocket(variant)] = "open" /\ nReplies < MaxReplies
    /\ \E d \in Datagrams : inbox' = Append(inbox, d)
    /\ nReplies' = nReplies + 1
    /\ UNCHANGED <<variant, first, mpc, rpc, sock, nClose, rdFail, out, got, doneRecv,
                   wg, probes, laddr, sent, sret, serr>>

\* The read socket fails for a reason other than its close.
NetError ==
    /\ sock[ReadSocket(variant)] = "open" /\ rpc = "reading" /\ ~rdFail
    /\ rdFail' = TRUE
    /\ UNCHANGED <<variant, first, mpc, rpc, sock, nClose, inbox, nReplies, out, got,
                   doneRecv, wg, probes, laddr, sent, sret, serr>>

\* No discovery call is made.
SearchIdle ==
    /\ variant = "Search" /\ first = FALSE
    /\ mpc = "start" /\ rpc = "none"
    /\ sock = [s \in Sockets |-> "none"]
    /\ nClose = [s \in Sockets |-> 0]
    /\ inbox = <<>> /\ nReplies = 0 /\ rdFail = FALSE
    /\ out = <<>> /\ got = <<>> /\ doneRecv = 0 /\ wg = 0 /\ probes = 0
    /\ laddr = NoAddr /\ sent = <<>>
    /\ sret = <<>> /\ serr = Nil

(***************************************************************************)
(* Text helpers: strings.IndexRune, strings.Split(s, "\n"),                *)
(* strings.TrimRight(s, "\r"), line[len(prefix):], strconv.Atoi.           *)
(***************************************************************************)
\* Position of the first byte c of s, counted from 1; 0 when s has none.
Index(s, c) ==
    LET at == {i \in 1..Len(s) : SubSeq(s, i, i) = c}
    IN IF at = {} THEN 0 ELSE CHOOSE i \in at : \A j \in at : i <= j

\* s[n:]
From(s, n) == SubSeq(s, n + 1, Len(s))

RECURSIVE Split(_)
Split(s) ==
    LET i == Index(s, "\n")
    IN  IF i = 0 THEN <<s>> ELSE <<SubSeq(s, 1, i - 1)>> \o Split(From(s, i))

RECURSIVE TrimRight(_)
TrimRight(s) ==
    IF HasSuffix(s, "\r") THEN TrimRight(SubSeq(s, 1, Len(s) - 1)) ELSE s

IsDigit(c) == c \in {"0", "1", "2", "3", "4", "5", "6", "7", "8", "9"}

DigitVal(c) == CHOOSE d \in 0..9 : SubSeq("0123456789", d + 1, d + 1) = c

\* Number of consecutive digits of s from position pos on.
RECURSIVE DigitRun(_, _)
DigitRun(s, pos) ==
    IF pos <= Len(s) /\ IsDigit(SubSeq(s, pos, pos))
    THEN 1 + DigitRun(s, pos + 1) ELSE 0

\* The number a string of digits denotes.
RECURSIVE Val(_)
Val(ds) ==
    IF ds = "" THEN 0
    ELSE 10 * Val(SubSeq(ds, 1, Len(ds) - 1)) + DigitVal(SubSeq(ds, Len(ds), Len(ds)))

RECURSIVE StripZeros(_)
StripZeros(ds) == IF HasPrefix(ds, "0") THEN StripZeros(From(ds, 1)) ELSE ds

\* strconv.Atoi: an optional sign, then one or more digits and nothing else.
\* A number of more than IntDigits significant digits is out of range of
\* int; Atoi then returns the largest int of that sign, for which the
\* largest number of the model stands.
Atoi(s) ==
    LET sign   == IF s # "" /\ SubSeq(s, 1, 1) \in {"+", "-"} THEN SubSeq(s, 1, 1) ELSE ""
        ds     == From(s, Len(sign))
        minus  == IF sign = "-" THEN -1 ELSE 1
    IN  IF ds = "" \/ DigitRun(ds, 1) # Len(ds)
        THEN [v |-> 0, err |-> Err("syntax", s)]
        ELSE IF Len(StripZeros(ds)) > IntDigits
        THEN [v |-> minus * 2147483647, err |-> Err("range", s)]
        ELSE [v |-> minus * Val(ds), err |-> Nil]

(***************************************************************************)
(* The anchored regular expressions of the reply parsers.  A pattern is a  *)
(* sequence of elements: a literal, \d+ or \-?, each inside capture group  *)
(* g (0: none).  In every pattern of the package \d+ is followed by a      *)
(* literal that starts with no digit or by the end, so the leftmost match  *)
(* is the one that takes every digit.                                      *)
(***************************************************************************)
Lit(t, g) == [k |-> "lit", s |-> t, g |-> g]
Digits(g) == [k |-> "digits", s |-> "", g |-> g]
OptMinus(g) == [k |-> "minus", s |-> "-", g |-> g]

Capture(caps, g, t) == IF g = 0 THEN caps ELSE [caps EXCEPT ![g] = @ \o t]

RECURSIVE MatchFrom(_, _, _, _)
MatchFrom(pat, s, pos, caps) ==
    IF pat = <<>> THEN [ok |-> pos = Len(s) + 1, m |-> caps]
    ELSE LET e == Head(pat)
             n == DigitRun(s, pos)
             fail == [ok |-> FALSE, m |-> caps]
         IN  IF e.k = "lit"
             THEN IF pos + Len(e.s) - 1 <= Len(s) /\ SubSeq(s, pos, pos + Len(e.s) - 1) = e.s
                  THEN MatchFrom(Tail(pat), s, pos + Len(e.s), Capture(caps, e.g, e.s))
                  ELSE fail
             ELSE IF e.k = "digits"
             THEN IF n > 0
                  THEN MatchFrom(Tail(pat), s, pos + n,
                                 Capture(caps, e.g, SubSeq(s, pos, pos + n - 1)))
                  ELSE fail
             ELSE IF pos <= Len(s) /\ SubSeq(s, pos, pos) = "-"
                  THEN MatchFrom(Tail(pat), s, pos + 1, Capture(caps, e.g, "-"))
                  ELSE MatchFrom(Tail(pat), s, pos, caps)

\* re.FindStringSubmatch(s): m[1..5] when the whole of s matches.
FindStringSubmatch(pat, s) == MatchFrom(pat, s, 1, [g \in 1..5 |-> ""])

\* ^X: (\d+) Y: (\d+) Z: (\d+)$
InfoXYZ == <<Lit("X: ", 0), Digits(1), Lit(" Y: ", 0), Digits(2), Lit(" Z: ", 0), Digits(3)>>

\* ^X:(\-?\d+(?:\.\d+)) Y:(\-?\d+(?:\.\d+)) Z:(\-?\d+(?:\.\d+)) A:(\d+) B:(\d+)$
PositionRE ==
    <<Lit("X:", 0), OptMinus(1), Digits(1), Lit(".", 1), Digits(1),
      Lit(" Y:", 0), OptMinus(2), Digits(2), Lit(".", 2), Digits(2),
      Lit(" Z:", 0), OptMinus(3), Digits(3), Lit(".", 3), Digits(3),
      Lit(" A:", 0), Digits(4), Lit(" B:", 0), Digits(5)>>

\* ^T(\d+):(\d+) /(\d+) B:(\d+)/(\d+)$
TempRE ==
    <<Lit("T", 0), Digits(1), Lit(":", 0), Digits(2), Lit(" /", 0), Digits(3),
      Lit(" B:", 0), Digits(4), Lit("/", 0), Digits(5)>>

(***************************************************************************)
(* parseDistance                                                           *)
(***************************************************************************)
\* ff := physic.MilliMetre; for j := 0; j < n; j++ { ff /= 10 }
RECURSIVE FractionUnit(_)
FractionUnit(n) == IF n = 0 THEN MilliMetre ELSE FractionUnit(n - 1) \div 10

\* The sign is dropped.
NegateNever(neg, d) == d

\* if neg { out *= -1 }
Negate(neg, d) == IF neg THEN d * (-1) ELSE d

\* s[0] of an empty string is an index out of range: the call panics.
parseDistance(s0) ==
    LET neg == s0 # "" /\ SubSeq(s0, 1, 1) = "-"
        s   == IF neg THEN From(s0, 1) ELSE s0
        i   == Index(s, ".")
        v   == Atoi(IF i # 0 THEN SubSeq(s, 1, i - 1) ELSE s)
        f   == Atoi(From(s, i))
        ff  == FractionUnit(Len(From(s, i)))
    IN  IF s0 = "" THEN [out |-> 0, err |-> Nil, panic |-> TRUE]
        ELSE IF v.err # Nil THEN [out |-> 0, err |-> v.err, panic |-> FALSE]
        ELSE IF i = 0
        THEN [out |-> Negate(neg, MilliMetre * v.v), err |-> Nil, panic |-> FALSE]
        ELSE IF f.err # Nil THEN [out |-> 0, err |-> f.err, panic |-> FALSE]
        ELSE [out |-> Negate(neg, MilliMetre * v.v + ff * f.v), err |-> Nil,
              panic |-> FALSE]

(***************************************************************************)
(* The reply parsers.  Each takes the caller's record and the payload      *)
(* sendCommand returned, and gives the record as the call leaves it and    *)
(* the error it returns.                                                   *)
(***************************************************************************)
\* var i Info; var s Status; var p Position; var t Temperatures
ZeroInfo ==
    [Type |-> "", Name |-> "", Firmware |-> "", Serial |-> "", X |-> 0, Y |-> 0,
     Z |-> 0, ExtruderCount |-> 0, MacAddr |-> ""]
ZeroStatus == [X |-> 0, Y |-> 0, Z |-> 0, Status |-> "", MoveMode |-> "", Stuff |-> ""]
ZeroPosition == [X |-> 0, Y |-> 0, Z |-> 0, A |-> 0, B |-> 0]
ZeroTemperatures == [Extruder |-> 0, Bed |-> 0, Chamber |-> 0]

UnknownReply(line) == Err("unknown reply", line)

\* A line outside the vocabulary is skipped.
UnknownLineSkipped(i, line) == [rec |-> i, err |-> Nil]

\* default: return fmt.Errorf("unknown reply: %q", line)
UnknownLine(i, line) == [rec |-> i, err |-> UnknownReply(line)]

\* The body of QueryPrinterInfo's switch for one line, "\r" trimmed.
InfoLine(i, line) ==
    IF HasPrefix(line, "Machine Type: ")
    THEN [rec |-> [i EXCEPT !.Type = From(line, Len("Machine Type: "))], err |-> Nil]
    ELSE IF HasPrefix(line, "Machine Name: ")
    THEN [rec |-> [i EXCEPT !.Name = From(line, Len("Machine Name: "))], err |-> Nil]
    ELSE IF HasPrefix(line, "Firmware: ")
    THEN [rec |-> [i EXCEPT !.Firmware = From(line, Len("Firmware: "))], err |-> Nil]
    ELSE IF HasPrefix(line, "SN: ")
    THEN [rec |-> [i EXCEPT !.Serial = From(line, Len("SN: "))], err |-> Nil]
    ELSE IF HasPrefix(line, "X: ")
    THEN LET m  == FindStringSubmatch(InfoXYZ, line)
             x  == Atoi(m.m[1])
             y  == Atoi(m.m[2])
             z  == Atoi(m.m[3])
             ix == [i EXCEPT !.X = MilliMetre * x.v]
             iy == [ix EXCEPT !.Y = MilliMetre * y.v]
         IN  IF ~m.ok THEN [rec |-> i, err |-> UnknownReply(line)]
             ELSE IF x.err # Nil THEN [rec |-> i, err |-> x.err]
             ELSE IF y.err # Nil THEN [rec |-> ix, err |-> y.err]
             ELSE IF z.err # Nil THEN [rec |-> iy, err |-> z.err]
             ELSE [rec |-> [iy EXCEPT !.Z = MilliMetre * z.v], err |-> Nil]
    ELSE IF HasPrefix(line, "Tool Count: ")
    THEN \* i.ExtruderCount, err = strconv.Atoi(...): assigned on failure too
         LET n == Atoi(From(line, Len("Tool Count: ")))
         IN  [rec |-> [i EXCEPT !.ExtruderCount = n.v], err |-> n.err]
    ELSE IF HasPrefix(line, "Mac Address: ")
    THEN [rec |-> [i EXCEPT !.MacAddr = From(line, Len("Mac Address: "))], err |-> Nil]
    ELSE IF line = "" THEN [rec |-> i, err |-> Nil]
    ELSE UnknownLine(i, line)

RECURSIVE InfoLines(_, _)
InfoLines(r, lines) ==
    IF lines = <<>> THEN r
    ELSE IF r.err # Nil THEN r
    ELSE InfoLines(InfoLine(r.rec, TrimRight(Head(lines))), Tail(lines))

QueryPrinterInfo(i, payload) == InfoLines([rec |-> i, err |-> Nil], Split(payload))

\* The body of QueryStatus's switch: the error of one line, "\r" trimmed.
StatusLine(line) ==
    IF \/ line = "Endstop: X-max:0 Y-max:0 Z-max:0"
       \/ HasPrefix(line, "MachineStatus: ")
       \/ HasPrefix(line, "MoveMode: ")
       \/ line = "Status: S:0 L:0 J:0 F:0"
    THEN Nil ELSE UnknownReply(line)

RECURSIVE StatusLines(_)
StatusLines(lines) ==
    IF lines = <<>> THEN Nil
    ELSE IF StatusLine(TrimRight(Head(lines))) # Nil
    THEN StatusLine(TrimRight(Head(lines)))
    ELSE StatusLines(Tail(lines))

QueryStatus(s, payload) == [rec |-> s, err |-> StatusLines(Split(payload))]

QueryExtruderPosition(p, payload) ==
    LET m  == FindStringSubmatch(PositionRE, payload)
        x  == parseDistance(m.m[1])
        y  == parseDistance(m.m[2])
        z  == parseDistance(m.m[3])
        a  == Atoi(m.m[4])
        b  == Atoi(m.m[5])
        px == [p EXCEPT !.X = x.out]
        py == [px EXCEPT !.Y = y.out]
        pz == [py EXCEPT !.Z = z.out]
        pa == [pz EXCEPT !.A = a.v]
    IN  IF ~m.ok THEN [rec |-> p, err |-> UnknownReply(payload)]
        ELSE IF x.err # Nil THEN [rec |-> p, err |-> x.err]
        ELSE IF y.err # Nil THEN [rec |-> px, err |-> y.err]
        ELSE IF z.err # Nil THEN [rec |-> py, err |-> z.err]
        ELSE IF a.err # Nil THEN [rec |-> pz, err |-> a.err]
        ELSE IF b.err # Nil THEN [rec |-> pa, err |-> b.err]
        ELSE [rec |-> [pa EXCEPT !.B = b.v], err |-> Nil]

\* TODO(maruel): Parse.  A match returns nil and assigns no field of t.
QueryTemp(t, payload) ==
    IF FindStringSubmatch(TempRE, payload).ok
    THEN [rec |-> t, err |-> Nil]
    ELSE [rec |-> t, err |-> UnknownReply(payload)]

(***************************************************************************)
(* Inputs of the parsers.                                                  *)
(***************************************************************************)
\* strconv.Itoa of a natural number.
RECURSIVE Itoa(_)
Itoa(n) ==
    IF n < 10 THEN SubSeq("0123456789", n + 1, n + 1)
    ELSE Itoa(n \div 10) \o Itoa(n % 10)

Abs(n) == IF n < 0 THEN -n ELSE n

\* The decimal millimetre text of n micrometres with three fractional
\* digits, as the printer writes a coordinate: -12340 is "-12.340".
Milli3(n) ==
    LET frac == Itoa(Abs(n) % 1000)
    IN  (IF n < 0 THEN "-" ELSE "") \o Itoa(Abs(n) \div 1000) \o "."
        \o SubSeq("00", 1, 3 - Len(frac)) \o frac

\* The text of a whole number of millimetres.
Whole(m) == (IF m < 0 THEN "-" ELSE "") \o Itoa(Abs(m))

Milli3Table == [n \in (-MaxMicro)..MaxMicro |-> Milli3(n)]
WholeTable == [m \in (-MaxMilli)..MaxMilli |-> Whole(m)]

\* Decimal texts with other numbers of fractional digits, up to and beyond
\* the six a nanometre count of millimetres can hold.
Fractions ==
    {"0.5", "1.25", "-0.05", "0.1234", "2.00001", "-1.123456", "0.000001",
     "0.1234567", "1.0000009", "-0.9999999", "3.00000001", "-2.1234567"}

\* Texts that are not an optional "-", digits, and an optional "." and digits.
NotDistances ==
    {"", "-", ".", "1.", ".5", "-.5", "-1.", "1.2.3", "1..2", "+5", "--5", "-+5",
     "+1.5", "1.+5", "1.-5", "1a", "a", "1.5x", " 1", "1 ", "1,5", "1e3"}

DistanceInputs ==
    {Milli3Table[n] : n \in DOMAIN Milli3Table}
        \cup {WholeTable[m] : m \in DOMAIN WholeTable}
        \cup Fractions \cup NotDistances

RECURSIVE JoinLines(_, _)
JoinLines(lines, sep) ==
    IF lines = <<>> THEN ""
    ELSE IF Len(lines) = 1 THEN lines[1]
    ELSE lines[1] \o sep \o JoinLines(Tail(lines), sep)

\* A full M115 reply, one line per key.
InfoReply ==
    <<"Machine Type: Adventurer 3", "Machine Name: A3", "Firmware: v1.0.7",
      "SN: SN0042", "X: 150 Y: 151 Z: 152", "Tool Count: 1",
      "Mac Address: 00:11:22">>

\* Other lines: blank ones, lines outside the vocabulary, and key lines
\* whose value is not what the key takes.
OtherInfoLines ==
    {"", "\r", "bogus", " SN: SN0042", "machine type: a", "Tool Count: 2",
     "Tool Count: -1", "Tool Count: x", "Tool Count: ", "X: 0 Y: 0 Z: 0",
     "X: 150 Y: 151",
     "X: 150 Y: 151 Z: 152 ", "X: 1 Y: 2 Z: -3",
     "X: 1 Y: 2 Z: 99999999999999999999", "Tool Count: 99999999999999999999"}

InfoLinesUpTo(n) ==
    UNION {[1..k -> OtherInfoLines \cup {InfoReply[j] : j \in DOMAIN InfoReply}] :
           k \in 0..n}

InfoPayloads ==
    {JoinLines([k \in DOMAIN InfoReply |-> InfoReply[f[k]]], CRLF) :
        f \in Permutations(DOMAIN InfoReply)}
    \cup {JoinLines(SubSeq(InfoReply, 1, k) \o <<x>>
               \o SubSeq(InfoReply, k + 1, Len(InfoReply)), CRLF) :
             k \in 0..Len(InfoReply), x \in OtherInfoLines}
    \cup {JoinLines(q, CRLF) : q \in InfoLinesUpTo(MaxLines)}
    \cup {JoinLines(InfoReply, "\n")}

StatusReply ==
    <<"Endstop: X-max:0 Y-max:0 Z-max:0", "MachineStatus: READY",
      "MoveMode: READY", "Status: S:0 L:0 J:0 F:0">>

StatusPayloads ==
    {JoinLines(StatusReply, CRLF), JoinLines(StatusReply, "\n"),
     JoinLines(StatusReply \o <<"">>, CRLF), JoinLines(StatusReply \o <<"bogus">>, CRLF),
     JoinLines(<<"bogus">> \o StatusReply, CRLF), JoinLines(<<"MoveMode: PAUSED">>, CRLF),
     "Endstop: X-max:1 Y-max:0 Z-max:0", ""}

PositionLine(x, y, z, a, b) ==
    "X:" \o x \o " Y:" \o y \o " Z:" \o z \o " A:" \o a \o " B:" \o b

Coordinates == {"0.00", "-1.50", "12.340", "1", "99999999999999999999.0"}

PositionPayloads ==
    {PositionLine(x, y, z, a, "0") :
        x \in Coordinates, y \in Coordinates, z \in Coordinates,
        a \in {"0", "7", "99999999999999999999"}}
    \cup {"", "bogus", "X:1.0 Y:2.0 Z:3.0 A:0", "X:+1.0 Y:2.0 Z:3.0 A:0 B:0",
          "X:1.0 Y:2.0 Z:3.0 A:0 B:0\r\n", "x:1.0 Y:2.0 Z:3.0 A:0 B:0"}

TempLine(n, a, b, c, d) ==
    "T" \o Itoa(n) \o ":" \o Itoa(a) \o " /" \o Itoa(b) \o " B:" \o Itoa(c)
    \o "/" \o Itoa(d)

ToolNumbers == {0, 1}
Degrees == {0, 25, 210}

TempPayloads ==
    {TempLine(n, a, b, c, d) :
        n \in ToolNumbers, a \in Degrees, b \in Degrees, c \in Degrees, d \in Degrees}
    \cup {"", "ok", "T0:25 /0 B:30", "T0:25/0 B:30/0", "T0:-5 /0 B:30/0",
          "T0:25.5 /0 B:30/0", " T0:25 /0 B:30/0", "T:25 /0 B:30/0",
          "T0:25 /0 B:30/0\r\n", "T0:25 /0 B:30/0 extra"}

\* A record the caller filled before the call.
EarlierInfo ==
    [Type |-> "t", Name |-> "n", Firmware |-> "f", Serial |-> "s", X |-> 1, Y |-> 2,
     Z |-> 3, ExtruderCount |-> 4, MacAddr |-> "m"]
EarlierStatus == [X |-> 1, Y |-> 2, Z |-> 3, Status |-> "s", MoveMode |-> "m", Stuff |-> "x"]
EarlierPosition == [X |-> 1, Y |-> 2, Z |-> 3, A |-> 4, B |-> 5]
EarlierTemperatures == [Extruder |-> 1, Bed |-> 2, Chamber |-> 3]

Parsers == {"QueryPrinterInfo", "QueryStatus", "QueryExtruderPosition", "QueryTemp"}

\* The commands with no reply of their own.
Setters == {"SetLight", "SetFan", "StopJob"}

\* cmd of SetLight(on), SetFan(on) and StopJob().
SetLightCmd(on) == IF on THEN "M146 r255 g255 b255 F0" ELSE "M146 r0 g0 b0 F0"
SetFanCmd(on) == IF on THEN "M106 P0 S255" ELSE "M107 P0"
StopJobCmd == "M26"

\* What sendCommand(c) can return: "" and the error of a failed Write, the
\* bytes read so far and the error of a failed Read, and Verify's result
\* for a response or for the first byte of one.
SendResults(c) ==
    {[ret |-> "", err |-> Err("write", "")]}
        \cup {[ret |-> r, err |-> Err("read", "")] : r \in {"", Prefix(c)}}
        \cup {Verify(c, r) : r \in Responses(c) \cup {SubSeq(Prefix(c), 1, 1)}}

InputsOf(fn) ==
    CASE fn = "QueryPrinterInfo" -> InfoPayloads
      [] fn = "QueryStatus" -> StatusPayloads
      [] fn = "QueryExtruderPosition" -> PositionPayloads
      [] fn = "QueryTemp" -> TempPayloads
      [] fn = "parseDistance" -> DistanceInputs
      [] fn = "SetLight" -> {SetLightCmd(on) : on \in BOOLEAN}
      [] fn = "SetFan" -> {SetFanCmd(on) : on \in BOOLEAN}
      [] fn = "StopJob" -> {StopJobCmd}

Records(fn) ==
    CASE fn = "QueryPrinterInfo" -> {ZeroInfo, EarlierInfo}
      [] fn = "QueryStatus" -> {ZeroStatus, EarlierStatus}
      [] fn = "QueryExtruderPosition" -> {ZeroPosition, EarlierPosition}
      [] fn = "QueryTemp" -> {ZeroTemperatures, EarlierTemperatures}
      [] fn \in Setters \cup {"parseDistance"} -> {<<>>}

(***************************************************************************)
(* SpecParse: one call of parseDistance or of a reply parser.              *)
(***************************************************************************)
InitParse ==
    /\ pfn \in Parsers \cup Setters \cup {"parseDistance"}
    /\ pin \in InputsOf(pfn)
    /\ pold \in Records(pfn) /\ prec = pold
    /\ pout = 0 /\ perr = Nil /\ psend = [ret |-> "", err |-> Nil] /\ ppc = "call"

\* No parser is called.
ParseIdle ==
    /\ pfn = "none" /\ pin = "" /\ pold = <<>> /\ prec = <<>>
    /\ pout = 0 /\ perr = Nil /\ psend = [ret |-> "", err |-> Nil] /\ ppc = "idle"

\* v, err := parseDistance(pin)
CallParseDistance ==
    /\ ppc = "call" /\ pfn = "parseDistance"
    /\ pout' = parseDistance(pin).out
    /\ perr' = parseDistance(pin).err
    /\ ppc' = IF parseDistance(pin).panic THEN "panic" ELSE "done"
    /\ UNCHANGED <<pfn, pin, pold, prec, psend>>

\* resp, err := d.sendCommand(...): either it fails and the parser returns
\* its error, or it returns the payload pin and the parser's result is r.
Parsed(fn, r) ==
    /\ ppc = "call" /\ pfn = fn
    /\ \/ \E k \in {"write", "read", "framing"} :
             perr' = Err(k, "") /\ prec' = prec
       \/ perr' = r.err /\ prec' = r.rec
    /\ ppc' = "done"
    /\ UNCHANGED <<pfn, pin, pold, pout, psend>>

CallQueryPrinterInfo == Parsed("QueryPrinterInfo", QueryPrinterInfo(prec, pin))
CallQueryStatus == Parsed("QueryStatus", QueryStatus(prec, pin))
CallQueryExtruderPosition ==
    Parsed("QueryExtruderPosition", QueryExtruderPosition(prec, pin))
CallQueryTemp == Parsed("QueryTemp", QueryTemp(prec, pin))

\* A nil error of sendCommand is returned whatever it returned with it.
EmptyReplyOrNil(r, e) == IF e = Nil THEN Nil ELSE IF r # "" THEN UnknownReply(r) ELSE e

\* if resp != "" { return fmt.Errorf("unknown reply: %q", resp) }; return err
EmptyReply(r, e) == IF r # "" THEN UnknownReply(r) ELSE e

\* resp, err := d.sendCommand(cmd) and the test of resp, the body that
\* SetLight, SetFan and StopJob share.
Set(fn) ==
    /\ ppc = "call" /\ pfn = fn
    /\ \E sr \in SendResults(pin) :
          psend' = sr /\ perr' = EmptyReply(sr.ret, sr.err)
    /\ ppc' = "done"
    /\ UNCHANGED <<pfn, pin, pold, prec, pout>>

CallSetLight == Set("SetLight")
CallSetFan == Set("SetFan")
CallStopJob == Set("StopJob")

vars == <<transportVars, searchVars, parseVars>>

(***************************************************************************)
(* Spec: one caller's use of the command transport.                        *)
(***************************************************************************)
Init == InitTransport /\ SearchIdle /\ ParseIdle

Next ==
    \/ Connect /\ UNCHANGED <<searchVars, parseVars>>
    \/ Command /\ UNCHANGED <<searchVars, parseVars>>
    \/ Close /\ UNCHANGED <<searchVars, parseVars>>
    \/ CloseNil /\ UNCHANGED <<searchVars, parseVars>>
    \/ Write /\ UNCHANGED <<searchVars, parseVars>>
    \/ Read /\ UNCHANGED <<searchVars, parseVars>>
    \/ ReadErr /\ UNCHANGED <<searchVars, parseVars>>
    \/ PeerRespond /\ UNCHANGED <<searchVars, parseVars>>
    \/ PeerClose /\ UNCHANGED <<searchVars, parseVars>>

Spec == Init /\ [][Next]_vars

(***************************************************************************)
(* SpecSearch: one discovery call.                                         *)
(***************************************************************************)
InitS == InitSearch /\ InitTransport /\ ParseIdle

NextS ==
    \/ Bind /\ UNCHANGED <<transportVars, parseVars>>
    \/ Send /\ UNCHANGED <<transportVars, parseVars>>
    \/ WindowElapsed /\ UNCHANGED <<transportVars, parseVars>>
    \/ SelectDone /\ UNCHANGED <<transportVars, parseVars>>
    \/ Join /\ UNCHANGED <<transportVars, parseVars>>
    \/ ReaderRead /\ UNCHANGED <<transportVars, parseVars>>
    \/ ReaderErr /\ UNCHANGED <<transportVars, parseVars>>
    \/ Reply /\ UNCHANGED <<transportVars, parseVars>>
    \/ NetError /\ UNCHANGED <<transportVars, parseVars>>

SpecSearch == InitS /\ [][NextS]_vars

InitP == InitParse /\ InitTransport /\ SearchIdle

NextP ==
    \/ CallParseDistance /\ UNCHANGED <<transportVars, searchVars>>
    \/ CallQueryPrinterInfo /\ UNCHANGED <<transportVars, searchVars>>
    \/ CallQueryStatus /\ UNCHANGED <<transportVars, searchVars>>
    \/ CallQueryExtruderPosition /\ UNCHANGED <<transportVars, searchVars>>
    \/ CallQueryTemp /\ UNCHANGED <<transportVars, searchVars>>
    \/ CallSetLight /\ UNCHANGED <<transportVars, searchVars>>
    \/ CallSetFan /\ UNCHANGED <<transportVars, searchVars>>
    \/ CallStopJob /\ UNCHANGED <<transportVars, searchVars>>

SpecParse == InitP /\ [][NextP]_vars

(***************************************************************************)
(* Properties of the command transport, checked under Spec.                *)
(***************************************************************************)
\* sendCommand has returned; cmd, resp, ret and err are those of that call.
Done == pc # "read" /\ cmd # ""

\* The read loop ended on a short read and the wrap was verified.
Verified == Done /\ err.kind \notin {"write", "read"}

C2_FramingError ==
    (Done /\ ~(HasPrefix(resp, Prefix(cmd)) /\ HasSuffix(resp, Suffix)))
        => /\ err # Nil
           /\ ret = resp
           /\ err.kind = "framing" => err.text = resp

C2_Witness ==
    /\ Done /\ err.kind = "framing"
    /\ HasPrefix(resp, Prefix(cmd)) /\ ~HasSuffix(resp, Suffix)
    /\ Len(resp) > Len(Prefix(cmd))

\* C3: sendCommand reads until the accumulated response ends with
\* "\r\nok\r\n": it issues no further read once the suffix has been seen, and
\* a well-formed frame answering the command yields its payload however the
\* stream splits it into reads.
C3_ReadsUntilSuffix ==
    /\ (pc = "read" /\ nReads > 0) => ~HasSuffix(resp, Suffix)
    /\ \A P \in Payloads :
          (Done /\ err.kind # "write" /\ ~stale /\ peerSent = Frame(cmd, P))
              => err = Nil /\ ret = P

\* C4: sendCommand never waits on the peer alone: while it waits for the
\* response, a step of its own (a read that returns, or the expiry of the
\* caller's maximum wait) is possible.
C4_SendDoesNotBlock == pc = "read" => ENABLED (Read \/ ReadErr)

\* C5: the hello handshake gives success exactly on "Control Success.", the
\* already-controlled error exactly on "Control failed.", and on every other
\* payload an error that holds the payload; Connect hands out a Dev only in
\* the first case.
C5_HelloClassification ==
    (Done /\ cmd = HelloCmd)
        => /\ (err = Nil /\ ret = ControlSuccess) => (connectErr = Nil /\ dev = "dev")
           /\ (err = Nil /\ ret = ControlFailed)
                  => (connectErr = Err("already", "") /\ dev # "dev")
           /\ (err = Nil /\ ret \notin {ControlSuccess, ControlFailed})
                  => (connectErr = Err("protocol", ret) /\ dev # "dev")
           /\ dev = "dev" => (err = Nil /\ ret = ControlSuccess)

C5_Witness ==
    /\ dev = "nil" /\ cmd = ByeCmd
    /\ connectErr = Err("protocol", "ab\r\ncd")

\* C6: once Connect has returned an error after the stream was opened, the
\* stream has been closed and the caller holds no Dev.
C6_FailedConnectClosesStream ==
    (dev # "unset" /\ connectErr # Nil)
        => /\ dev = "nil"
           /\ conn # "open"
           /\ connectErr.kind # "dial" => (conn = "closed" /\ closeCalls = 1)

C6_Witness == dev = "nil" /\ connectErr.kind = "already" /\ conn = "closed"

\* C7: Close closes the stream exactly once, after the bye command, whatever
\* the bye outcome; it returns the bye failure if there is one, otherwise the
\* stream's close failure, otherwise nil.
C7_CloseResult ==
    /\ conn # "closed" => closeCalls = 0
    /\ (op = "none" /\ conn = "closed")
          => /\ closeCalls = 1
             /\ Done /\ cmd = ByeCmd
             /\ err # Nil => closeErr = err
             /\ (err = Nil /\ ret # ControlRelease) => closeErr = Err("release", ret)
             /\ (err = Nil /\ ret = ControlRelease) => closeErr = err2

C7_Witness ==
    /\ op = "none" /\ conn = "closed" /\ dev = "dev"
    /\ err.kind = "framing" /\ err2 # Nil /\ closeErr = err

\* C8: calling Close on what a failed Connect returned never crashes.
C8_CloseAfterFailedConnect == ~crashed

(***************************************************************************)
(* Properties of discovery, checked under SpecSearch.                      *)
(***************************************************************************)
\* C9: when Search returns after its socket was bound, the socket has been
\* closed exactly once and the read loop has finished, its done signal
\* received; the socket is never closed twice.
C9_SearchClosesOnceAndJoins ==
    variant = "Search"
        => /\ nClose["l"] <= 1
           /\ (mpc = "returned" /\ sock["l"] # "none")
                 => (nClose["l"] = 1 /\ rpc = "exited" /\ doneRecv = 1)

C9_Witness ==
    /\ variant = "Search" /\ mpc = "returned" /\ ~first
    /\ rdFail /\ Len(sret) = 1 /\ nClose["l"] = 1

\* C10: in every variant, when the discovery call waits for its read loop
\* the socket that loop reads from has been closed.
C10_ReadSocketClosed == mpc = "join" => sock[ReadSocket(variant)] = "closed"

(***************************************************************************)
(* Discovery results                                                       *)
(***************************************************************************)
\* The datagram holds a zero byte.
HasZero(d) == \E i \in 1..Len(d.data) : d.data[i] = 0

\* The bytes of a datagram before its first zero byte.
NameOf(d) ==
    LET z == CHOOSE i \in 1..Len(d.data) :
                 d.data[i] = 0 /\ \A j \in 1..(i - 1) : d.data[j] # 0
    IN  [k \in 1..(z - 1) |-> d.data[k]]

\* Search has returned what its read loop collected (no bind or send failure).
Collected ==
    variant = "Search" /\ mpc = "returned" /\ serr.kind \notin {"bind", "send"}

\* C11 as stated: every datagram the read loop of Search reads becomes
\* exactly one peer, whatever its payload bytes are, so Search returns as
\* many peers as datagrams were read.
C11_EveryDatagramOnePeer ==
    /\ variant = "Search" => Len(out) = Len(got)
    /\ Collected => Len(sret) = Len(got)

\* C11 amended: a datagram read by Search becomes one peer exactly when its
\* payload holds a zero byte (the peer's name is the bytes before the first
\* zero byte and its address the sender's); a datagram with no zero byte
\* adds no peer.  Search returns as many peers as it read datagrams holding
\* a zero byte, in the order read.
C11_ZeroTerminatedDatagramOnePeer ==
    LET named == SelectSeq(got, HasZero)
    IN  /\ variant = "Search" =>
              /\ Len(out) = Len(named)
              /\ \A k \in 1..Len(out) :
                     out[k].IP = named[k].src /\ out[k].Name = NameOf(named[k])
        /\ Collected => sret = out

\* Search returned after reading one datagram with a zero byte and one without.
C11_Witness ==
    /\ Collected /\ Len(got) = 2 /\ Len(sret) = 1
    /\ \E k \in 1..2 : ~HasZero(got[k])

\* C12 as stated: when Search's window elapses with zero replies it returns
\* an empty set and no error.
C12_NoReplyNoError ==
    (Collected /\ nReplies = 0) => (sret = <<>> /\ serr = Nil)

\* C12 amended: when Search's window elapses with zero replies it returns an
\* empty set, and its error is the result of closing the socket: nil unless
\* that Close fails.  No reply is never an error of its own.
C12_NoReplyEmptySet ==
    (Collected /\ nReplies = 0) =>
        /\ sret = <<>>
        /\ serr \in {Nil, Err("close", "")}
        /\ nClose["l"] = 1

\* The window elapsed with no reply delivered and no read error, and Search
\* returned.
C12_Witness ==
    Collected /\ nReplies = 0 /\ ~rdFail /\ sret = <<>> /\ serr = Nil

\* C18: with first = TRUE the read loop of Search stops after the first
\* datagram it reads, so Search never returns more than one peer.
C18_FirstAtMostOnePeer ==
    (variant = "Search" /\ first) =>
        /\ Len(got) <= 1 /\ Len(out) <= 1 /\ Len(sret) <= 1
        /\ Len(got) = 1 => rpc \in {"sendDone", "exited"}

\* Search(true, d) returned one peer while a second reply was waiting unread.
C18_Witness ==
    /\ Collected /\ first /\ Len(sret) = 1 /\ nReplies = 2 /\ Len(inbox) = 1

(***************************************************************************)
(* Order of the commands of one caller                                     *)
(***************************************************************************)
\* Positions of written that hold the buffer of command line c.
WrittenAt(c) == {k \in 1..Len(written) : written[k] = "~" \o c \o "\n"}

\* Hello first, bye last, the stream closed only after the bye and nothing
\* written after the close; every buffer is "~" \o commandLine \o "\n".
HelloFirstByeLast ==
    /\ \A k \in 1..Len(written) :
           \E c \in Cmds \cup {HelloCmd, ByeCmd} : k \in WrittenAt(c)
    /\ WrittenAt(HelloCmd) = (IF written = <<>> THEN {} ELSE {1})
    /\ conn = "closed" =>
           /\ WrittenAt(ByeCmd) = {Len(written)}
           /\ Len(written) >= 2
           /\ pc # "write"
    /\ (conn # "closed" /\ WrittenAt(ByeCmd) # {}) =>
           /\ op \in {"Close", "ConnectClose"}
           /\ WrittenAt(ByeCmd) = {Len(written)}

\* C17: in a run of Connect, zero or more commands and one Close, the first
\* command written is the hello and the last the bye, the stream is closed
\* only after the bye was issued and nothing is written after the close, on
\* Connect's failure path too; each command is written as
\* "~" \o commandLine \o "\n" and, as long as the peer keeps the stream open,
\* its response has been read before the next command is written.
C17_HelloFirstByeLastInLockstep ==
    /\ HelloFirstByeLast
    /\ ~eof => ~stale

(***************************************************************************)
(* Reply parsers                                                           *)
(***************************************************************************)
\* The call of parser fn returned and sendCommand had given it the payload.
ParsedPayload(fn) ==
    pfn = fn /\ ppc = "done" /\ perr.kind \notin {"write", "read", "framing"}

\* C13: parsing is atomic for every reply parser that fills a record
\* (QueryPrinterInfo, QueryStatus, QueryExtruderPosition, QueryTemp): when
\* the call fails, the caller's record holds no field written from the
\* failed reply.
C13_FailedParseLeavesRecord ==
    (pfn \in Parsers /\ ppc = "done" /\ perr # Nil) => prec = pold

\* The lines of a payload, each without its trailing "\r".
PayloadLines(payload) ==
    LET lines == Split(payload)
    IN  [k \in DOMAIN lines |-> TrimRight(lines[k])]

\* The vocabulary of the M115 reply.
TextKeys ==
    { <<"Type", "Machine Type: ">>, <<"Name", "Machine Name: ">>,
      <<"Firmware", "Firmware: ">>, <<"Serial", "SN: ">>,
      <<"MacAddr", "Mac Address: ">> }
Dimensions == {0, 150, 151, 152}
Counts == 0..2
XYZLine(a, b, c) == "X: " \o Itoa(a) \o " Y: " \o Itoa(b) \o " Z: " \o Itoa(c)
XYZLines == {XYZLine(a, b, c) : a \in Dimensions, b \in Dimensions, c \in Dimensions}
CountLine(sg, n) == "Tool Count: " \o sg \o Itoa(n)
CountLines == {CountLine(sg, n) : sg \in {"", "+", "-"}, n \in Counts}

\* A blank line, or a key of the vocabulary with a value the key takes.
Recognized(line) ==
    \/ line = ""
    \/ \E fk \in TextKeys : HasPrefix(line, fk[2])
    \/ line \in XYZLines
    \/ line \in CountLines

\* The last of the lines that starts with key; 0 when there is none.
LastWith(lines, key) ==
    LET at == {k \in DOMAIN lines : HasPrefix(lines[k], key)}
    IN IF at = {} THEN 0 ELSE CHOOSE k \in at : \A j \in at : j <= k

\* Every field holds the value of the last line with its key, and the
\* caller's value when the payload has no such line.
Populated(lines) ==
    LET count == LastWith(lines, "Tool Count: ")
        xyz   == LastWith(lines, "X: ")
    IN  /\ \A fk \in TextKeys :
              LET last == LastWith(lines, fk[2])
              IN  prec[fk[1]] = IF last = 0 THEN pold[fk[1]]
                                ELSE From(lines[last], Len(fk[2]))
        /\ IF count = 0 THEN prec.ExtruderCount = pold.ExtruderCount
           ELSE \E sg \in {"", "+", "-"}, n \in Counts :
                   /\ lines[count] = CountLine(sg, n)
                   /\ prec.ExtruderCount = IF sg = "-" THEN -n ELSE n
        /\ IF xyz = 0
           THEN prec.X = pold.X /\ prec.Y = pold.Y /\ prec.Z = pold.Z
           ELSE \E a \in Dimensions, b \in Dimensions, c \in Dimensions :
                   /\ lines[xyz] = XYZLine(a, b, c)
                   /\ prec.X = a * MilliMetre /\ prec.Y = b * MilliMetre
                   /\ prec.Z = c * MilliMetre

\* The record of the full reply InfoReply.
InfoOfReply ==
    [Type |-> "Adventurer 3", Name |-> "A3", Firmware |-> "v1.0.7",
     Serial |-> "SN0042", X |-> 150 * MilliMetre, Y |-> 151 * MilliMetre,
     Z |-> 152 * MilliMetre, ExtruderCount |-> 1, MacAddr |-> "00:11:22"]

\* C14: QueryPrinterInfo accepts the recognized "Key: value" lines in any
\* order and ignores blank lines: it fails exactly when the payload has a
\* line that is not blank and is outside the vocabulary or has a malformed
\* value; when it succeeds every field holds the value of its key's line,
\* so a payload with all the keys gives a fully populated record.
C14_InfoVocabulary ==
    ParsedPayload("QueryPrinterInfo") =>
        LET lines == PayloadLines(pin)
        IN  /\ (perr = Nil) <=> (\A k \in DOMAIN lines : Recognized(lines[k]))
            /\ perr = Nil => Populated(lines)
            /\ {lines[k] : k \in DOMAIN lines} = {InfoReply[j] : j \in DOMAIN InfoReply}
                  => (perr = Nil /\ prec = InfoOfReply)

\* A full reply whose lines come in another order than InfoReply's
\* populated every field of a record the caller had filled before.
C14_Witness ==
    /\ ParsedPayload("QueryPrinterInfo") /\ perr = Nil
    /\ pin = JoinLines(<<InfoReply[7], InfoReply[6], InfoReply[5], InfoReply[4],
                        InfoReply[3], InfoReply[2], InfoReply[1]>>, CRLF)
    /\ pold = EarlierInfo /\ prec = InfoOfReply

\* physic.Temperature of c degrees Celsius, counted in millikelvin.
Celsius(c) == 273150 + 1000 * c

\* C15: for a payload "T<n>:<int> /<int> B:<int>/<int>" QueryTemp succeeds
\* and the Temperatures record holds the extruder and bed temperatures the
\* payload gives; for any other payload it fails.
C15_TempFromPayload ==
    ParsedPayload("QueryTemp") =>
        /\ (perr = Nil) <=>
              \E n \in ToolNumbers, a \in Degrees, b \in Degrees, c \in Degrees,
                 d \in Degrees : pin = TempLine(n, a, b, c, d)
        /\ \A n \in ToolNumbers, a \in Degrees, b \in Degrees, c \in Degrees,
              d \in Degrees :
              pin = TempLine(n, a, b, c, d) =>
                  prec.Extruder = Celsius(a) /\ prec.Bed = Celsius(c)

(***************************************************************************)
(* parseDistance                                                           *)
(***************************************************************************)
\* physic.MicroMetre
MicroMetre == MilliMetre \div 1000

\* C16: for every n micrometres of the range, negative ones and zero
\* included, parseDistance of the three-fractional-digit millimetre text of
\* n returns exactly n micrometres, and of the text of m whole millimetres
\* exactly m millimetres; the sign applies to the whole magnitude.
C16_RoundTrip ==
    (pfn = "parseDistance" /\ ppc # "call") =>
        /\ \A n \in DOMAIN Milli3Table :
              pin = Milli3Table[n] =>
                  (ppc = "done" /\ perr = Nil /\ pout = n * MicroMetre)
        /\ \A m \in DOMAIN WholeTable :
              pin = WholeTable[m] =>
                  (ppc = "done" /\ perr = Nil /\ pout = m * MilliMetre)

\* "-0.340", whose integer part carries no sign of its own, gave -340 um.
C16_Witness ==
    /\ pfn = "parseDistance" /\ ppc = "done" /\ pin = "-0.340"
    /\ perr = Nil /\ pout = (-340) * MicroMetre

\* One or more digits and nothing else.
AllDigits(t) == t # "" /\ \A k \in 1..Len(t) : IsDigit(SubSeq(t, k, k))

\* An optional "-", digits, and an optional "." followed by digits.
IsDecimal(s) ==
    LET t == IF HasPrefix(s, "-") THEN From(s, 1) ELSE s
        i == Index(t, ".")
    IN  IF i = 0 THEN AllDigits(t)
        ELSE AllDigits(SubSeq(t, 1, i - 1)) /\ AllDigits(From(t, i))

\* The fractional digits a physic.Distance of millimetres can hold.
Resolution == Len(Itoa(MilliMetre)) - 1

\* The exact value of a decimal text, truncated toward zero to a nanometre.
Truncated(s) ==
    LET neg  == HasPrefix(s, "-")
        t    == IF neg THEN From(s, 1) ELSE s
        i    == Index(t, ".")
        frac == From(t, i)
        kept == SubSeq(frac, 1, Min(Len(frac), Resolution))
        nano == Val(kept \o SubSeq("000000", 1, Resolution - Len(kept)))
        mag  == Val(SubSeq(t, 1, i - 1)) * MilliMetre + nano
    IN  IF neg THEN -mag ELSE mag

\* C19: parseDistance truncates and never rounds: the result of a decimal
\* text, also one with more fractional digits than a distance can hold, is
\* its exact value truncated toward zero to the resolution; the leading
\* fractional digits are kept and only those beyond the resolution dropped.
C19_TruncatesToResolution ==
    (pfn = "parseDistance" /\ ppc # "call" /\ IsDecimal(pin) /\ Index(pin, ".") # 0) =>
        (ppc = "done" /\ perr = Nil /\ pout = Truncated(pin))

\* C20: parseDistance returns a failure for every input that is not an
\* optional "-", digits, and an optional "." followed by digits: a "+", a
\* second "-", any other non-digit, and a leading, trailing or repeated "."
\* are rejected.
C20_RejectsMalformed ==
    (pfn = "parseDistance" /\ ppc # "call" /\ ~IsDecimal(pin)) =>
        (ppc = "done" /\ perr # Nil)

(***************************************************************************)
(* QueryExtruderPosition                                                   *)
(***************************************************************************)
\* The coordinate texts parseDistance accepts.
Decoded == {x \in Coordinates : IsDecimal(x) /\ parseDistance(x).err = Nil}
AxisTexts == {"0", "7"}

\* C21: QueryExtruderPosition succeeds exactly on the payloads that are one
\* line "X:<d> Y:<d> Z:<d> A:<int> B:<int>" in which each <d> is a signed
\* decimal parseDistance accepts, integer-only ones included; X, Y and Z
\* are then parseDistance's results and A and B the integers.  Every other
\* payload fails.
C21_PositionShape ==
    ParsedPayload("QueryExtruderPosition") =>
        /\ (perr = Nil) <=>
              \E x \in Decoded, y \in Decoded, z \in Decoded, a \in AxisTexts,
                 b \in AxisTexts : pin = PositionLine(x, y, z, a, b)
        /\ \A x \in Decoded, y \in Decoded, z \in Decoded, a \in AxisTexts,
              b \in AxisTexts :
              pin = PositionLine(x, y, z, a, b) =>
                  prec = [X |-> parseDistance(x).out, Y |-> parseDistance(y).out,
                          Z |-> parseDistance(z).out, A |-> Val(a), B |-> Val(b)]

(***************************************************************************)
(* SetLight, SetFan, StopJob                                               *)
(***************************************************************************)
\* C22: SetLight, SetFan and StopJob return nil if and only if sendCommand
\* succeeded with an empty payload; a payload that is not empty, a framing
\* error and a transport error each make them return an error.
C22_NilIffEmptyPayload ==
    (pfn \in Setters /\ ppc = "done") =>
        /\ (perr = Nil) <=> (psend.err = Nil /\ psend.ret = "")
        /\ psend.err.kind \in {"write", "read", "framing"} => perr # Nil
        /\ (psend.err = Nil /\ psend.ret # "") => perr = UnknownReply(psend.ret)

\* SetLight(true) got the frame of M146 with nothing between its CMD line
\* and its ok line, and returned nil.
C22_Witness ==
    /\ pfn = "SetLight" /\ pin = SetLightCmd(TRUE) /\ ppc = "done"
    /\ psend = Verify(pin, Frame(pin, "")) /\ perr = Nil

(***************************************************************************)
(* One connection, several commands                                        *)
(***************************************************************************)
\* C23: if the peer answers every command with exactly one well-formed
\* frame for that command, however the stream splits it into reads, no
\* sendCommand call returns bytes of the frame that answers another
\* command: what a call has read is its own answer, all of it and nothing
\* else.
C23_OwnResponseOnly ==
    (Done /\ peerOK /\ ~eof /\ err.kind # "write") =>
        /\ HasPrefix(peerSent, Prefix(cmd))
        /\ HasPrefix(peerSent, resp)
        /\ resp = peerSent /\ wire = ""

(***************************************************************************)
(* The result slice of Search                                              *)
(***************************************************************************)
\* C24: in Search the read loop never touches the result slice while or
\* after the caller reads it: every append comes before the receive on done
\* that precedes the return, and after its first read error the read loop
\* appends nothing, so the returned set is final.
C24_ResultFinal ==
    variant = "Search" =>
        /\ (mpc = "returned" /\ rpc # "none") => (rpc = "exited" /\ doneRecv = 1)
        /\ (mpc = "returned" \/ rdFail \/ rpc \in {"sendDone", "exited"})
              => ~ENABLED ReaderRead
        /\ Collected => sret = out

\* Search returned a peer while another reply was left unread in the socket.
C24_Witness ==
    Collected /\ ~first /\ Len(sret) = 1 /\ inbox # <<>> /\ rpc = "exited"

(***************************************************************************)
(* The probe datagram                                                      *)
(***************************************************************************)
\* The 16-bit number in b[1], b[2], in the variant's byte order.
Port16(v, b) == IF v = "Search" THEN b[1] * 256 + b[2] ELSE b[1] + 256 * b[2]

\* For every port 0..65535 and every variant magic[4:6] is the port and
\* magic[6:8] is zero.
EveryPortEncoded ==
    \A v \in Variants, p \in 0..PortMax :
        LET b == PortBytes(v, p)
        IN Len(b) = 4 /\ Port16(v, b) = p /\ b[3] = 0 /\ b[4] = 0

\* The probe as sent by a call.
ProbeShape ==
    /\ probes <= 1 /\ Len(sent) = probes
    /\ (mpc \in {"select", "sleep"} \/ (mpc = "returned" /\ serr.kind \notin {"bind", "send"}))
          => probes = 1
    /\ \A i \in 1..Len(sent) :
          /\ sent[i].to = "225.0.0.9:19000"
          /\ Len(sent[i].data) = 8
          /\ SubSeq(sent[i].data, 1, 4) = laddr.IP
          /\ Port16(variant, SubSeq(sent[i].data, 5, 6)) = laddr.Port
          /\ sent[i].data[7] = 0 /\ sent[i].data[8] = 0

\* C25: every discovery variant sends one probe datagram of 8 bytes to
\* 225.0.0.9:19000, once the socket it reads replies from is bound: bytes 0-3
\* are the local listen IP, bytes 4-5 the listen port in the variant's byte
\* order, and bytes 6-7 are zero for every port 0..65535.
C25_ProbeDatagram ==
    /\ [](ProbeShape /\ EveryPortEncoded)
    /\ [][probes' # probes =>
             /\ sock[ReadSocket(variant)] = "open"
             /\ laddr \in LocalAddrs(variant)]_vars

\* SearchListen announced port 256 as 00 01 00 00 and Search would announce
\* it as 01 00 00 00.
C25_Witness ==
    /\ variant = "SearchListen" /\ probes = 1 /\ laddr.Port = 256
    /\ sent = <<[to |-> ip, data |-> <<192, 168, 1, 20, 0, 1, 0, 0>>]>>
    /\ PortBytes("Search", 256) = <<1, 0, 0, 0>>
====
